---- MODULE Spec2Model ----
(***************************************************************************)
(* Model of the Garmin log reporter's core:                                *)
(*   - safe_api_call  (garmin_client/api_safe.py), the Call Guard          *)
(*   - GarminClient   (garmin_client/client.py),   the Session Manager     *)
(*   - safe_call_for_group, call_and_display, the wrappers of the guard    *)
(*   - format_timedelta (garmin_client/utils.py)                           *)
(*                                                                         *)
(* Python values are represented by their repr as strings, exception       *)
(* texts (str(e)) by strings, so that the substring tests of the code      *)
(* ("401" in error_str) are computed on the characters of the text.        *)
(***************************************************************************)
EXTENDS Integers, Sequences, FiniteSets, TLC

VARIABLES
    op,           \* the call made of safe_api_call: api_method's behaviour and the arguments
                  \* (of format_timedelta: the timedelta)
    outcome,      \* what the call gave back to its caller
    printed,      \* lines written by print() during that call
    invoked,      \* the (args, kwargs) api_method was invoked with
    api,          \* GarminClient.api
    tokenstore,   \* content of the file at config.tokenstore
    pc,           \* position of the running GarminClient.login
    loc,          \* locals of the running login (mfa_callback, _, api, result2, code)
    hist,         \* what the running/last login did (external calls made, faults
                  \* of the steps outside the try) and self.api at its entry
    loginResult,  \* how the last login ended
    nextId,       \* identity of the next Garmin object constructed
    logins,       \* number of login calls started
    ret,          \* how the last call of is_connected, _call, get_activities,
                  \* get_activity, safe_call_for_group, call_and_display or
                  \* format_timedelta ended
    response_json \* the file response.json of config.export_dir

guardVars == <<op, outcome, printed, invoked>>
clientVars == <<api, tokenstore, pc, loc, hist, loginResult, nextId, logins>>
vars == <<op, outcome, printed, invoked, api, tokenstore, pc, loc, hist,
          loginResult, nextId, logins, ret, response_json>>

-----------------------------------------------------------------------------
(* Bounds *)

\* exception texts are concatenations of at most MaxFrags fragments
MaxFrags == 2

\* number of login calls made on one client
MaxLogins == 2

\* durations of up to MaxDays days and 86399 seconds
MaxDays == 1

-----------------------------------------------------------------------------
(* Values *)

\* Python's None
None == "None"

\* status_code = None : no status attached to the fault
NoStatus == 0

Fragments == {"400", "401", "403", "404", "429", "500", "503",
              "Bad Request", "boom"}

RECURSIVE TextsUpTo(_)
TextsUpTo(n) ==
    IF n = 0 THEN {""}
    ELSE LET shorter == TextsUpTo(n - 1)
         IN  shorter \cup {t \o f : t \in shorter, f \in Fragments}

\* the texts str(e) of the faults considered
Texts == TextsUpTo(MaxFrags)

\* the status codes a fault's response may carry (418, 502: not dispatched on)
Statuses == {NoStatus, 400, 401, 403, 404, 418, 429, 500, 502, 503}

\* return values of the wrapped operation, by repr
Values == {None, "[]", "{}", "{'status': 'ok'}", "5", "0"}

\* positional and keyword arguments handed to safe_api_call
ArgsSet == {<<>>, <<"2", "3">>}
KwargsSet == {<<>>, <<"limit=1">>}

\* method_name keyword: None or a human-readable name
MethodNames == {None, "summary"}

\* api_method.__name__
OpName == "api_method"

\* `sub in s` on Python strings
Contains(sub, s) ==
    \E i \in 1..(Len(s) - Len(sub) + 1) : SubSeq(s, i, i + Len(sub) - 1) = sub

-----------------------------------------------------------------------------
(* The wrapped operation: what api_method does when it is invoked *)

\* exception classes, as the except clauses of safe_api_call tell them apart;
\* "BaseException" stands for KeyboardInterrupt / SystemExit, which are not
\* subclasses of Exception
HttpKind == "GarthHTTPError"
AuthKind == "GarminConnectAuthenticationError"
ConnKind == "GarminConnectConnectionError"
OtherKind == "Exception"
BaseKind == "BaseException"

ExceptionKinds == {HttpKind, AuthKind, ConnKind, OtherKind}

Behaviour(kind, value, status, text) ==
    [kind |-> kind, value |-> value, status |-> status, text |-> text]

Returning == {Behaviour("return", v, NoStatus, "") : v \in Values}

HttpFaults == {Behaviour(HttpKind, None, s, t) : s \in Statuses, t \in Texts}

PlainFaults ==
    {Behaviour(k, None, NoStatus, t) : k \in {AuthKind, ConnKind, OtherKind, BaseKind},
                                       t \in Texts}

Behaviours == Returning \cup HttpFaults \cup PlainFaults

-----------------------------------------------------------------------------
(* safe_api_call *)

Msg400 == "Endpoint not available (400 Bad Request) - This feature may not be enabled for your account or region"
Msg401 == "Authentication required (401 Unauthorized) - Please re-authenticate"
Msg403 == "Access denied (403 Forbidden) - Your account may not have permission for this feature"
Msg404 == "Endpoint not found (404) - This feature may have been moved or removed"
Msg429 == "Rate limit exceeded (429) - Please wait before making more requests"
Msg500 == "Server error (500) - Garmin's servers are experiencing issues"
Msg503 == "Service unavailable (503) - Garmin's servers are temporarily unavailable"

\* the branch of the if/elif chain taken for a GarthHTTPError; ElseBranch is
\* the final else
ElseBranch == 0

HttpBranch(status_code, error_str) ==
    IF status_code = 400
       \/ (Contains("400", error_str) /\ Contains("Bad Request", error_str))
    THEN 400
    ELSE IF status_code = 401 \/ Contains("401", error_str) THEN 401
    ELSE IF status_code = 403 \/ Contains("403", error_str) THEN 403
    ELSE IF status_code = 404 \/ Contains("404", error_str) THEN 404
    ELSE IF status_code = 429 \/ Contains("429", error_str) THEN 429
    ELSE IF status_code = 500 \/ Contains("500", error_str) THEN 500
    ELSE IF status_code = 503 \/ Contains("503", error_str) THEN 503
    ELSE ElseBranch

\* error_msg assigned in each branch
HttpErrorMsg(branch, error_str) ==
    CASE branch = 400 -> Msg400
      [] branch = 401 -> Msg401
      [] branch = 403 -> Msg403
      [] branch = 404 -> Msg404
      [] branch = 429 -> Msg429
      [] branch = 500 -> Msg500
      [] branch = 503 -> Msg503
      [] OTHER -> "HTTP error: " \o error_str

\* the line print() writes; "(!)" stands for the warning sign
Warning(method_name, error_msg) ==
    "(!) " \o method_name \o " failed: " \o error_msg

\* the lines printed inside the branches of the chain (lines 53..72)
BranchPrints(branch, method_name, error_msg) ==
    IF branch \in {401, 403, 404, 429, 500, 503}
    THEN <<Warning(method_name, error_msg)>>
    ELSE <<>>

\* the print after the chain (line 76)
FinalPrint(branch, method_name, error_msg) ==
    <<Warning(method_name, error_msg)>>

\* UnexpectedMsg without its prefix: error_msg = str(e)
UnexpectedMsgBare(text) == text

AuthMsg(text) == "Authentication issue: " \o text
ConnMsg(text) == "Connection issue: " \o text
UnexpectedMsg(text) == "Unexpected error: " \o text

\* Handler without the final `except Exception` clause
HandlerNoCatchAll(kind) ==
    IF kind = HttpKind THEN "http"
    ELSE IF kind = AuthKind THEN "auth"
    ELSE IF kind = ConnKind THEN "conn"
    ELSE "escapes"

\* Handler with `except Exception` listed before the connection clause
HandlerCatchAllEarly(kind) ==
    IF kind = HttpKind THEN "http"
    ELSE IF kind = AuthKind THEN "auth"
    ELSE IF kind \in {OtherKind, ConnKind} THEN "exception"
    ELSE "escapes"

\* the except clause that handles a fault of a kind, in the order of the
\* clauses; "escapes" when no clause matches
Handler(kind) ==
    IF kind = HttpKind THEN "http"
    ELSE IF kind = AuthKind THEN "auth"
    ELSE IF kind = ConnKind THEN "conn"
    ELSE IF kind = OtherKind THEN "exception"
    ELSE "escapes"

Returned(success, result, error_message, lines) ==
    [escaped |-> FALSE, success |-> success, result |-> result,
     error_message |-> error_message, printed |-> lines]

Escaped ==
    [escaped |-> TRUE, success |-> FALSE, result |-> None,
     error_message |-> None, printed |-> <<>>]

\* SuccessOutcome with `result or None` in place of result
SuccessOutcomeTruthy(result) ==
    Returned(TRUE, IF result \in {None, "[]", "{}", "0"} THEN None ELSE result,
             None, <<>>)

\* return True, result, None
SuccessOutcome(result) == Returned(TRUE, result, None, <<>>)

\* the except GarthHTTPError clause
HandleHttp(status_code, error_str, method_name) ==
    LET branch == HttpBranch(status_code, error_str)
        error_msg == HttpErrorMsg(branch, error_str)
    IN  Returned(FALSE, None, error_msg,
                 BranchPrints(branch, method_name, error_msg)
                    \o FinalPrint(branch, method_name, error_msg))

\* the three other except clauses
HandlePlain(error_msg, method_name) ==
    Returned(FALSE, None, error_msg, <<Warning(method_name, error_msg)>>)

\* method_name defaults to api_method.__name__
EffectiveName(method_name) ==
    IF method_name = None THEN OpName ELSE method_name

\* safe_api_call(api_method, *args, method_name=..., **kwargs) for an
\* api_method that behaves as b
safe_api_call(b, method_name_kw) ==
    LET method_name == EffectiveName(method_name_kw)
        h == Handler(b.kind)
    IN  IF b.kind = "return" THEN SuccessOutcome(b.value)
        ELSE CASE h = "http" -> HandleHttp(b.status, b.text, method_name)
               [] h = "auth" -> HandlePlain(AuthMsg(b.text), method_name)
               [] h = "conn" -> HandlePlain(ConnMsg(b.text), method_name)
               [] h = "exception" -> HandlePlain(UnexpectedMsg(b.text), method_name)
               [] OTHER -> Escaped

\* the arguments api_method is invoked with (line 33): method_name is not
\* forwarded
Invocation(args, kwargs) == <<args, kwargs>>

NoOp ==
    [b |-> Behaviour("none", None, NoStatus, ""), args |-> <<>>, kwargs |-> <<>>,
     method_name |-> None]

NoOutcome ==
    [escaped |-> FALSE, success |-> TRUE, result |-> None, error_message |-> None]

\* the calls of safe_api_call considered
Calls ==
    {[b |-> b, args |-> args, kwargs |-> kwargs, method_name |-> method_name] :
        b \in Behaviours, args \in ArgsSet, kwargs \in KwargsSet,
        method_name \in MethodNames}

\* the call of safe_api_call runs: api_method is invoked and the outcome is
\* handed back
SafeApiCall ==
    /\ op \in Calls
    /\ invoked = <<>>
    /\ LET r == safe_api_call(op.b, op.method_name)
       IN  /\ invoked' = <<Invocation(op.args, op.kwargs)>>
           /\ outcome' = [escaped |-> r.escaped, success |-> r.success,
                          result |-> r.result, error_message |-> r.error_message]
           /\ printed' = r.printed
    /\ UNCHANGED op
    /\ UNCHANGED clientVars
    /\ UNCHANGED <<ret, response_json>>

\* no guard call is made
NoGuardCall ==
    /\ op' = NoOp
    /\ invoked' = <<>>
    /\ outcome' = NoOutcome
    /\ printed' = <<>>

\* no call of is_connected, _call, get_activities, get_activity,
\* safe_call_for_group or call_and_display has been made
NoRet ==
    [op |-> "none", status |-> "none", value |-> None, kind |-> "none", msg |-> "",
     guardCalls |-> 0]

-----------------------------------------------------------------------------
(* GarminClient.login *)

\* self.api = None
NoApi == 0

\* MaxAttempts with one more round
MaxAttemptsOneMore == 3 + 1

\* for _ in range(3)
MaxAttempts == 3

\* one-time codes the mfa_callback may hand back
Codes == {"123456", "000000"}

\* result2 of api.login() on the Garmin object g: the challenge state when
\* MFA is needed, the second token otherwise
ChallengeState(g) == <<"client_state", g>>
Oauth2Token(g) == <<"oauth2", g>>
NoState == <<"none", 0>>

\* faults of api.login(), mfa_callback() and garth.dump()
StepFaults ==
    {Behaviour(k, None, NoStatus, t) :
        k \in {HttpKind, AuthKind, ConnKind, OtherKind, BaseKind},
        t \in {"boom", "401"}}

\* the status codes of the responses resume_login may fail on
ResumeStatuses == {NoStatus, 401, 500}

\* faults of api.resume_login()
ResumeFaults ==
    {Behaviour(HttpKind, None, s, t) : s \in ResumeStatuses, t \in Texts}
    \cup StepFaults

\* what api.login() does
LoginOutcomes ==
    {[result1 |-> "needs_mfa", fault |-> NoOp.b], [result1 |-> "oauth1", fault |-> NoOp.b]}
    \cup {[result1 |-> "raises", fault |-> f] : f \in StepFaults}

MfaMissingMsg == "Provide an MFA function"
InvalidMsg == "Invalid email or password"

\* "401" in str(e) or "403" in str(e)
AuthRejected(error_str) == Contains("401", error_str) \/ Contains("403", error_str)

\* InTry with the try block around the whole loop body
InTryWholeBody(step) == TRUE

\* lines 32..33: the try block encloses api.resume_login only
InTry(step) == step = "resume_login"

\* lines 35..37: the fault f of a step is caught and the loop continues
Retried(step, f) == InTry(step) /\ f.kind = HttpKind /\ AuthRejected(f.text)

\* ResumeArgs with the code left out
ResumeArgsNoCode(result2, code) == <<result2, None>>

\* the arguments of api.resume_login(result2, code)
ResumeArgs(result2, code) == <<result2, code>>

NoLocals ==
    [mfa_callback |-> FALSE, attempt |-> 0, api |-> NoApi, result2 |-> NoState,
     code |-> None]

NoHist ==
    [loginCalls |-> 0, mfaCalls |-> 0, apis |-> <<>>, needs |-> <<>>,
     states |-> <<>>, codes |-> <<>>, resumes |-> <<>>, rejected |-> 0,
     dumps |-> 0, apiBefore |-> NoApi, stepFaults |-> 0]

NoResult == [status |-> "none", kind |-> "none", msg |-> "", by |-> "none"]
Running == [status |-> "running", kind |-> "none", msg |-> "", by |-> "none"]
ReturnedNormally == [status |-> "returned", kind |-> "none", msg |-> "", by |-> "none"]
Raised(kind, msg, by) == [status |-> "raised", kind |-> kind, msg |-> msg, by |-> by]

\* login(mfa_callback) is entered; cb: a (truthy) callback was given
Login(cb) ==
    /\ pc = "idle"
    /\ logins < MaxLogins
    /\ logins' = logins + 1
    /\ pc' = "api_login"
    /\ loc' = [NoLocals EXCEPT !.mfa_callback = cb]
    /\ hist' = [NoHist EXCEPT !.apiBefore = api]
    /\ loginResult' = Running
    /\ UNCHANGED <<api, tokenstore, nextId>>
    /\ NoGuardCall
    /\ ret' = NoRet
    /\ UNCHANGED response_json

\* NeedsMfa as a truthiness test: `if result1:`
NeedsMfaTruthy(result1) == result1 # None

\* line 26: result1 == "needs_mfa"
NeedsMfa(result1) == result1 = "needs_mfa"

\* CallbackMissing without the test of line 27
CallbackMissingNever(mfa_callback) == FALSE

\* line 27: not mfa_callback
CallbackMissing(mfa_callback) == ~mfa_callback

\* the continue of line 37 and, when the loop is exhausted, line 44
Continue(h) ==
    /\ loc' = [loc EXCEPT !.attempt = @ + 1]
    /\ hist' = h
    /\ api' = api
    /\ IF loc.attempt + 1 < MaxAttempts
       THEN /\ pc' = "api_login"
            /\ loginResult' = loginResult
       ELSE /\ pc' = "idle"
            /\ loginResult' = Raised(OtherKind, InvalidMsg, "login")

\* lines 17..28, and 40 when no MFA is needed: the Garmin object is built,
\* api.login() runs and its result is dispatched on
ApiLogin ==
    /\ pc = "api_login"
    /\ \E o \in LoginOutcomes :
        LET g == nextId
            mfa == o.result1 = "needs_mfa"
            r2 == IF mfa THEN ChallengeState(g) ELSE Oauth2Token(g)
            h0 == [hist EXCEPT !.loginCalls = @ + 1, !.apis = Append(@, g)]
            h == [h0 EXCEPT !.needs = Append(@, mfa), !.states = Append(@, r2)]
        IN  /\ nextId' = nextId + 1
            /\ tokenstore' = tokenstore
            /\ CASE o.result1 = "raises" ->
                      IF Retried("api.login", o.fault)
                      THEN Continue([h0 EXCEPT !.stepFaults = @ + 1])
                      ELSE /\ pc' = "idle"
                           /\ loginResult' =
                                 Raised(o.fault.kind, o.fault.text, "api.login")
                           /\ hist' = [h0 EXCEPT !.stepFaults = @ + 1]
                           /\ loc' = [loc EXCEPT !.api = g]
                           /\ api' = api
                 [] o.result1 # "raises" /\ NeedsMfa(o.result1)
                    /\ CallbackMissing(loc.mfa_callback) ->
                      /\ pc' = "idle"
                      /\ loginResult' = Raised(OtherKind, MfaMissingMsg, "login")
                      /\ hist' = h
                      /\ loc' = [loc EXCEPT !.api = g, !.result2 = r2]
                      /\ api' = api
                 [] o.result1 # "raises" /\ NeedsMfa(o.result1)
                    /\ ~CallbackMissing(loc.mfa_callback) ->
                      /\ pc' = "mfa_callback"
                      /\ loginResult' = loginResult
                      /\ hist' = h
                      /\ loc' = [loc EXCEPT !.api = g, !.result2 = r2]
                      /\ api' = api
                 [] OTHER ->
                      /\ pc' = "dump"
                      /\ loginResult' = loginResult
                      /\ hist' = h
                      /\ loc' = [loc EXCEPT !.api = g, !.result2 = r2]
                      /\ api' = g
    /\ UNCHANGED logins
    /\ UNCHANGED guardVars
    /\ UNCHANGED <<ret, response_json>>

\* line 30: code = mfa_callback()
MfaCallback ==
    /\ pc = "mfa_callback"
    /\ \/ \E c \in Codes :
            /\ loc' = [loc EXCEPT !.code = c]
            /\ hist' = [hist EXCEPT !.mfaCalls = @ + 1, !.codes = Append(@, c)]
            /\ pc' = "resume_login"
            /\ loginResult' = loginResult
       \/ \E f \in StepFaults :
            LET h == [hist EXCEPT !.mfaCalls = @ + 1, !.stepFaults = @ + 1]
            IN  IF Retried("mfa_callback", f)
                THEN Continue(h)
                ELSE /\ loc' = loc
                     /\ hist' = h
                     /\ pc' = "idle"
                     /\ loginResult' = Raised(f.kind, f.text, "mfa_callback")
    /\ UNCHANGED <<api, tokenstore, nextId, logins>>
    /\ UNCHANGED guardVars
    /\ UNCHANGED <<ret, response_json>>

\* lines 32..40: api.resume_login(result2, code) and its except clause
ResumeLogin ==
    /\ pc = "resume_login"
    /\ LET args == ResumeArgs(loc.result2, loc.code)
           Record(res, status) ==
               [hist EXCEPT !.resumes =
                   Append(@, [args |-> args, result |-> res, status |-> status])]
       IN  \/ /\ api' = loc.api
              /\ pc' = "dump"
              /\ hist' = Record("ok", NoStatus)
              /\ UNCHANGED <<loc, loginResult>>
           \/ \E f \in ResumeFaults :
                IF Retried("resume_login", f)
                THEN Continue([Record("rejected", f.status) EXCEPT !.rejected = @ + 1])
                ELSE /\ pc' = "idle"
                     /\ loginResult' = Raised(f.kind, f.text, "resume_login")
                     /\ hist' = Record("raised", f.status)
                     /\ UNCHANGED <<loc, api>>
    /\ UNCHANGED <<tokenstore, nextId, logins>>
    /\ UNCHANGED guardVars
    /\ UNCHANGED <<ret, response_json>>

\* lines 41..42: self.api.garth.dump(self.config.tokenstore); return
Dump ==
    /\ pc = "dump"
    /\ \/ /\ tokenstore' = api
          /\ loginResult' = ReturnedNormally
          /\ pc' = "idle"
          /\ hist' = [hist EXCEPT !.dumps = @ + 1]
          /\ loc' = loc
       \/ \E f \in StepFaults :
            LET h == [hist EXCEPT !.dumps = @ + 1, !.stepFaults = @ + 1]
            IN  /\ tokenstore' = tokenstore
                /\ IF Retried("dump", f)
                   THEN Continue(h)
                   ELSE /\ loginResult' = Raised(f.kind, f.text, "dump")
                        /\ pc' = "idle"
                        /\ hist' = h
                        /\ loc' = loc
    /\ UNCHANGED <<api, nextId, logins>>
    /\ UNCHANGED guardVars
    /\ UNCHANGED <<ret, response_json>>

-----------------------------------------------------------------------------
(* GarminClient.is_connected, _call, get_activities, get_activity *)

\* the operation op returned value
Returns(o, value, guardCalls) ==
    [op |-> o, status |-> "returned", value |-> value, kind |-> "none", msg |-> "",
     guardCalls |-> guardCalls]

\* the operation op raised kind(msg)
Throws(o, kind, msg, guardCalls) ==
    [op |-> o, status |-> "raised", value |-> None, kind |-> kind, msg |-> msg,
     guardCalls |-> guardCalls]

\* Python's bool as repr
PyBool(b) == IF b THEN "True" ELSE "False"

\* is_connected as a test of the token store instead of self.api
is_connected_persisted == tokenstore # NoApi

\* is_connected without the test: always connected
is_connected_always == TRUE

\* line 47: self.api is not None
is_connected == api # NoApi

NotConnectedMsg == "Client is not connected"
NoActivitiesMsg == "\"you haven't done anything dude get moving!\""

\* `not data` for the values considered
Falsy(value) == value \in {None, "[]", "{}", "0"}

\* what the API methods of the Garmin object may do
DataBehaviours ==
    Returning
    \cup {Behaviour(HttpKind, None, st, t) : st \in {NoStatus, 404}, t \in {"boom", "401"}}
    \cup {Behaviour(k, None, NoStatus, t) :
            k \in {AuthKind, ConnKind, OtherKind, BaseKind}, t \in {"boom", "401"}}

\* the arguments of get_activities(start, end) and get_activity(activity_id)
DateRanges == {<<"2024-01-01", "2024-01-07">>}
ActivityIds == {<<"42">>}

\* _call without lines 54..56: a failure is handed back as data
CallOutcomeSwallowed(o, r, text) ==
    IF r.escaped THEN Throws(o, BaseKind, text, 1)
    ELSE Returns(o, r.result, 1)

\* lines 54..58 of _call: the guard's outcome r is turned into a return value
\* or an Exception(err); a fault the guard let escape (text) propagates
CallOutcome(o, r, text) ==
    IF r.escaped THEN Throws(o, BaseKind, text, 1)
    ELSE IF ~r.success THEN Throws(o, OtherKind, r.error_message, 1)
    ELSE Returns(o, r.result, 1)

\* lines 65..70 of get_activities: the result of _call, c, is printed and a
\* falsy value is replaced
ActivitiesResult(c) ==
    IF c.status = "returned" /\ Falsy(c.value)
    THEN [c EXCEPT !.value = NoActivitiesMsg]
    ELSE c

\* the guard call made by _call(methods, *args): methods behaves as b
GuardCall(b, args) ==
    /\ op' = [b |-> b, args |-> args, kwargs |-> <<>>, method_name |-> None]
    /\ invoked' = <<Invocation(args, <<>>)>>
    /\ LET r == safe_api_call(b, None)
       IN  /\ outcome' = [escaped |-> r.escaped, success |-> r.success,
                          result |-> r.result, error_message |-> r.error_message]
           /\ printed' = r.printed

\* login has returned or raised to its caller (lines 28, 38, 42, 44): its
\* frame is gone, the caller goes on
LoginExit ==
    /\ pc = "idle"
    /\ loginResult.status \in {"returned", "raised"}
    /\ loc' = NoLocals
    /\ hist' = NoHist
    /\ loginResult' = NoResult
    /\ UNCHANGED <<api, tokenstore, pc, nextId, logins>>
    /\ UNCHANGED guardVars
    /\ UNCHANGED <<ret, response_json>>

\* no login is running: the caller may call the other methods of the client
ClientIdle ==
    /\ pc = "idle"
    /\ loginResult = NoResult

\* client.is_connected()
IsConnected ==
    /\ ClientIdle
    /\ UNCHANGED clientVars
    /\ UNCHANGED response_json
    /\ NoGuardCall
    /\ ret' = Returns("is_connected", PyBool(is_connected), 0)

\* client._call(methods, *args)
Call ==
    /\ ClientIdle
    /\ UNCHANGED clientVars
    /\ UNCHANGED response_json
    /\ \E b \in DataBehaviours, args \in ActivityIds :
        /\ GuardCall(b, args)
        /\ ret' = CallOutcome("_call", safe_api_call(b, None), b.text)

\* client.get_activities(start, end)
GetActivities ==
    /\ ClientIdle
    /\ UNCHANGED clientVars
    /\ UNCHANGED response_json
    /\ \E b \in DataBehaviours, args \in DateRanges :
        IF ~is_connected
        THEN /\ NoGuardCall
             /\ ret' = Throws("get_activities", "RuntimeError", NotConnectedMsg, 0)
        ELSE /\ GuardCall(b, args)
             /\ ret' = ActivitiesResult(
                          CallOutcome("get_activities", safe_api_call(b, None), b.text))

\* client.get_activity(activity_id)
GetActivity ==
    /\ ClientIdle
    /\ UNCHANGED clientVars
    /\ UNCHANGED response_json
    /\ \E b \in DataBehaviours, args \in ActivityIds :
        IF ~is_connected
        THEN /\ NoGuardCall
             /\ ret' = Throws("get_activity", "RuntimeError", NotConnectedMsg, 0)
        ELSE /\ GuardCall(b, args)
             /\ ret' = CallOutcome("get_activity", safe_api_call(b, None), b.text)

-----------------------------------------------------------------------------
(* safe_call_for_group (api_safe.py) and call_and_display (display.py) *)

\* config.export_dir does not exist / exists without a response.json
NoDir == "<no directory>"
NoFile == "<no file>"

\* str(e) of the FileNotFoundError raised by open() when the directory is
\* missing
FileNotFoundMsg == "[Errno 2] No such file or directory: 'your_data/response.json'"

\* api_call_desc keyword: None or a description chosen by the caller
Descs == {None, "Daily summary"}

\* the calls of the two wrappers considered
WrapperCalls ==
    {[b |-> b, args |-> args, kwargs |-> kwargs, method_name |-> method_name,
      api_call_desc |-> api_call_desc] :
        b \in DataBehaviours, args \in ArgsSet, kwargs \in KwargsSet,
        method_name \in MethodNames, api_call_desc \in Descs}

\* sub is the beginning / the end of s
StartsWith(sub, s) == Len(sub) <= Len(s) /\ SubSeq(s, 1, Len(sub)) = sub
EndsWith(sub, s) ==
    Len(sub) <= Len(s) /\ SubSeq(s, Len(s) - Len(sub) + 1, Len(s)) = sub

\* ", ".join(parts)
RECURSIVE Join(_)
Join(parts) ==
    IF parts = <<>> THEN ""
    ELSE IF Len(parts) = 1 THEN parts[1]
    ELSE parts[1] \o ", " \o Join(Tail(parts))

\* filter(None, parts): the non-empty strings of parts
NonEmpty(parts) == SelectSeq(parts, LAMBDA part : part # "")

\* "-" * n
RECURSIVE Dashes(_)
Dashes(n) == IF n = 0 THEN "" ELSE "-" \o Dashes(n - 1)

\* the description built when none is given: method_name(all_args)
Description(method_name, args, kwargs) ==
    LET args_str == Join(args)
        kwargs_str == Join(kwargs)
        all_args == Join(NonEmpty(<<args_str, kwargs_str>>))
    IN  method_name \o "(" \o all_args \o ")"

\* ApiCallDesc that never uses the caller's description
ApiCallDescBuilt(api_call_desc, method_name, args, kwargs) ==
    Description(method_name, args, kwargs)

\* `if api_call_desc is None:` a description is built, else the caller's
\* description is used
ApiCallDesc(api_call_desc, method_name, args, kwargs) ==
    IF api_call_desc = None THEN Description(method_name, args, kwargs)
    ELSE api_call_desc

\* f"{api_call_desc} [ERROR]"
ErrorDesc(api_call_desc) == api_call_desc \o " [ERROR]"

\* {"error": error_msg}, by repr
ErrorDict(error_msg) == "{'error': '" \o error_msg \o "'}"

\* the last lines of safe_call_for_group: the pair handed back for the
\* guard's outcome r; a fault the guard let escape (text) propagates
GroupOutcome(api_call_desc, r, text) ==
    IF r.escaped THEN Throws("safe_call_for_group", BaseKind, text, 1)
    ELSE IF r.success
         THEN Returns("safe_call_for_group", <<api_call_desc, r.result>>, 1)
         ELSE Returns("safe_call_for_group",
                      <<ErrorDesc(api_call_desc), ErrorDict(r.error_message)>>, 1)

\* the guard call made by a wrapper for the call op, under the resolved
\* method_name
WrapperGuardCall(method_name) ==
    /\ invoked' = <<Invocation(op.args, op.kwargs)>>
    /\ LET r == safe_api_call(op.b, method_name)
       IN  outcome' = [escaped |-> r.escaped, success |-> r.success,
                       result |-> r.result, error_message |-> r.error_message]

\* safe_call_for_group(api_method, *args, method_name=..., api_call_desc=...,
\* **kwargs) runs
SafeCallForGroup ==
    /\ op \in WrapperCalls
    /\ invoked = <<>>
    /\ LET method_name == EffectiveName(op.method_name)
           api_call_desc ==
               ApiCallDesc(op.api_call_desc, method_name, op.args, op.kwargs)
           r == safe_api_call(op.b, method_name)
       IN  /\ WrapperGuardCall(method_name)
           /\ printed' = r.printed
           /\ ret' = GroupOutcome(api_call_desc, r, op.b.text)
    /\ UNCHANGED <<op, response_json>>
    /\ UNCHANGED clientVars

\* json.dumps(output, indent=2, default=str) for the outputs considered: the
\* values of Values other than None and the error dicts
JsonDumps(output) ==
    IF StartsWith("{'error': '", output)
    THEN "{\n  \"error\": \"" \o SubSeq(output, 12, Len(output) - 2) \o "\"\n}"
    ELSE IF output = "{'status': 'ok'}" THEN "{\n  \"status\": \"ok\"\n}"
    ELSE output

\* the entry written to response.json
ResponseContent(api_call, formatted_output) ==
    Dashes(20) \o " " \o api_call \o " " \o Dashes(20) \o "\n"
        \o formatted_output \o "\n" \o Dashes(77) \o "\n"

\* the first two lines printed (the leading newline and the emoji left out)
DisplayHeader(api_call) == <<"API Call: " \o api_call, Dashes(50)>>

Displayed(raised, lines, file) == [raised |-> raised, lines |-> lines, file |-> file]

\* _display_single(api_call, output) with response.json in state file: the
\* lines printed, the new state of the file, and whether the open() of the
\* None branch (outside the try) raised
display_single(api_call, output, file) ==
    IF output = None
    THEN IF file = NoDir
         THEN Displayed(TRUE, DisplayHeader(api_call) \o <<"No data returned">>, file)
         ELSE Displayed(FALSE, DisplayHeader(api_call) \o <<"No data returned">>,
                        ResponseContent(api_call, "{}"))
    ELSE IF file = NoDir
         THEN Displayed(FALSE,
                        DisplayHeader(api_call)
                            \o <<"Error formatting output: " \o FileNotFoundMsg, output>>,
                        file)
         ELSE Displayed(FALSE,
                        DisplayHeader(api_call) \o <<JsonDumps(output), Dashes(77)>>,
                        ResponseContent(api_call, JsonDumps(output)))

\* the last lines of call_and_display: what is displayed for the guard's
\* outcome r
DisplayOf(api_call_desc, r, file) ==
    IF r.success THEN display_single(api_call_desc, r.result, file)
    ELSE display_single(ErrorDesc(api_call_desc), ErrorDict(r.error_message), file)

\* the last lines of call_and_display: the pair handed back for the guard's
\* outcome r after the display d; a fault the guard let escape (text) and a
\* fault of the display propagate
DisplayOutcome(r, d, text) ==
    IF r.escaped THEN Throws("call_and_display", BaseKind, text, 1)
    ELSE IF d.raised
         THEN Throws("call_and_display", "FileNotFoundError", FileNotFoundMsg, 1)
         ELSE IF r.success
              THEN Returns("call_and_display", <<PyBool(TRUE), r.result>>, 1)
              ELSE Returns("call_and_display", <<PyBool(FALSE), None>>, 1)

\* call_and_display(api_method, *args, method_name=..., api_call_desc=...,
\* **kwargs) runs in single-call mode
CallAndDisplay ==
    /\ op \in WrapperCalls
    /\ invoked = <<>>
    /\ LET method_name == EffectiveName(op.method_name)
           api_call_desc ==
               ApiCallDesc(op.api_call_desc, method_name, op.args, op.kwargs)
           r == safe_api_call(op.b, method_name)
           d == DisplayOf(api_call_desc, r, response_json)
       IN  /\ WrapperGuardCall(method_name)
           /\ printed' = IF r.escaped THEN r.printed ELSE r.printed \o d.lines
           /\ response_json' = IF r.escaped THEN response_json ELSE d.file
           /\ ret' = DisplayOutcome(r, d, op.b.text)
    /\ UNCHANGED op
    /\ UNCHANGED clientVars

-----------------------------------------------------------------------------
(* format_timedelta (utils.py) *)

\* a datetime.timedelta by the two fields read: days (negative for a negative
\* duration) and seconds (always 0..86399)
Timedeltas == [days : (-1)..MaxDays, seconds : 0..86399]

\* the calls of format_timedelta considered
TimedeltaCalls == [fn : {"format_timedelta"}, td : Timedeltas]

Digits == <<"0", "1", "2", "3", "4", "5", "6", "7", "8", "9">>

\* the format spec d for an integer
RECURSIVE FormatD(_)
FormatD(n) ==
    IF n < 0 THEN "-" \o FormatD(0 - n)
    ELSE IF n < 10 THEN Digits[n + 1]
    ELSE FormatD(n \div 10) \o Digits[(n % 10) + 1]

\* the format spec 02d: zero-padded to a width of two
Format02D(n) ==
    LET s == FormatD(n)
    IN  IF Len(s) < 2 THEN "0" \o s ELSE s

\* divmod(a, b) for b > 0
DivMod(a, b) == <<a \div b, a % b>>

\* TotalSeconds without the days
TotalSecondsOfDay(td) == td.seconds

\* line 29: td.seconds + td.days * 86400
TotalSeconds(td) == td.seconds + td.days * 86400

\* format_timedelta(td)
format_timedelta(td) ==
    LET ms == DivMod(TotalSeconds(td), 60)
        hm == DivMod(ms[1], 60)
        seconds == ms[2]
        hours == hm[1]
        minutes == hm[2]
    IN  FormatD(hours) \o ":" \o Format02D(minutes) \o ":" \o Format02D(seconds)

\* format_timedelta(td) is called
FormatTimedelta ==
    /\ op \in TimedeltaCalls
    /\ ret = NoRet
    /\ ret' = Returns("format_timedelta", format_timedelta(op.td), 0)
    /\ UNCHANGED guardVars
    /\ UNCHANGED clientVars
    /\ UNCHANGED response_json

-----------------------------------------------------------------------------
(* Specifications *)

ClientInit ==
    /\ api = NoApi
    /\ tokenstore = NoApi
    /\ pc = "idle"
    /\ loc = NoLocals
    /\ hist = NoHist
    /\ loginResult = NoResult
    /\ nextId = 1
    /\ logins = 0
    /\ ret = NoRet

\* a call of safe_api_call is about to be made
GuardInit ==
    /\ op \in Calls
    /\ outcome = NoOutcome
    /\ printed = <<>>
    /\ invoked = <<>>
    /\ response_json = NoFile
    /\ ClientInit

\* a freshly constructed GarminClient
Init ==
    /\ op = NoOp
    /\ outcome = NoOutcome
    /\ printed = <<>>
    /\ invoked = <<>>
    /\ response_json = NoFile
    /\ ClientInit

\* the Call Guard, called by scripts and tests
Next == SafeApiCall

Spec == GuardInit /\ [][Next]_vars

\* the Session Manager's login
LoginNext ==
    \/ \E cb \in BOOLEAN : Login(cb)
    \/ ApiLogin
    \/ MfaCallback
    \/ ResumeLogin
    \/ Dump

LoginSpec == Init /\ [][LoginNext]_vars

\* the GarminClient as its callers use it
ClientNext ==
    \/ LoginNext
    \/ LoginExit
    \/ IsConnected
    \/ Call
    \/ GetActivities
    \/ GetActivity

ClientSpec == Init /\ [][ClientNext]_vars

\* a call of safe_call_for_group or call_and_display is about to be made; the
\* export directory is there or not (config.ensure_dirs is optional)
WrapperInit ==
    /\ op \in WrapperCalls
    /\ outcome = NoOutcome
    /\ printed = <<>>
    /\ invoked = <<>>
    /\ response_json \in {NoDir, NoFile}
    /\ ClientInit

\* the wrappers of the Call Guard
WrapperNext ==
    \/ SafeCallForGroup
    \/ CallAndDisplay

WrapperSpec == WrapperInit /\ [][WrapperNext]_vars

\* a call of format_timedelta is about to be made
UtilsInit ==
    /\ op \in TimedeltaCalls
    /\ outcome = NoOutcome
    /\ printed = <<>>
    /\ invoked = <<>>
    /\ response_json = NoFile
    /\ ClientInit

UtilsNext == FormatTimedelta

UtilsSpec == UtilsInit /\ [][UtilsNext]_vars

-----------------------------------------------------------------------------
(* Properties of safe_api_call, checked under Spec *)

\* the call has run
Called == invoked # <<>>

\* the op raised a fault of class cls
Raises(kind) == Called /\ op.b.kind = kind

\* C1: safe_api_call never raises: whatever exception (a subclass of
\* Exception: HTTP fault with or without status, authentication fault,
\* connectivity fault, any other exception) the operation raises, the call
\* hands back a (success, result, error_message) triple and the fault does
\* not escape.
C1_NeverRaises ==
    (Called /\ op.b.kind \in ExceptionKinds) =>
        /\ ~outcome.escaped
        /\ outcome.success = FALSE
        /\ outcome.error_message # None

C1_Witness ==
    /\ Raises(OtherKind)
    /\ ~outcome.escaped
    /\ outcome.error_message = "Unexpected error: boom"

\* C2: for an operation that returns normally the call gives
\* (True, <the operation's return value>, None), also for None and empty
\* collections, and the operation is invoked exactly once, with the given
\* positional and keyword arguments.
C2_SuccessPassesValue ==
    Raises("return") =>
        /\ ~outcome.escaped
        /\ outcome.success = TRUE
        /\ outcome.result = op.b.value
        /\ outcome.error_message = None
        /\ Len(invoked) = 1
        /\ invoked[1] = <<op.args, op.kwargs>>

C2_Witness ==
    /\ Raises("return")
    /\ op.b.value = "[]"
    /\ op.args = <<"2", "3">>
    /\ op.kwargs = <<"limit=1">>
    /\ outcome.success
    /\ outcome.result = "[]"

\* C3: every outcome handed back satisfies the CallOutcome invariant:
\* success implies error_message is None; failure implies result is None and
\* error_message is a non-empty string.
C3_OutcomeInvariant ==
    (Called /\ ~outcome.escaped) =>
        /\ outcome.success => outcome.error_message = None
        /\ ~outcome.success =>
              /\ outcome.result = None
              /\ outcome.error_message # None
              /\ Len(outcome.error_message) > 0

C3_Witness ==
    /\ Raises(OtherKind)
    /\ op.b.text = ""
    /\ ~outcome.escaped
    /\ ~outcome.success
    /\ Len(outcome.error_message) > 0

\* the message of the category of a status code
CategoryMsg(status) ==
    CASE status = 400 -> Msg400
      [] status = 401 -> Msg401
      [] status = 403 -> Msg403
      [] status = 404 -> Msg404
      [] status = 429 -> Msg429
      [] status = 500 -> Msg500
      [] status = 503 -> Msg503

\* C4: an HTTP fault whose attached status code is 401, 403, 404, 429, 500
\* or 503 gives a failure with the message of the category of that status
\* code, whatever the text of the fault is.
C4_StatusDecidesCategory ==
    (Raises(HttpKind) /\ op.b.status \in {401, 403, 404, 429, 500, 503}) =>
        /\ ~outcome.escaped
        /\ ~outcome.success
        /\ outcome.error_message = CategoryMsg(op.b.status)

\* C5: the substring match on the text is used only when the fault carries
\* no status code: an HTTP fault with a status code outside
\* {400, 401, 403, 404, 429, 500, 503} always gives "HTTP error: <text>",
\* also when the text contains one of those numbers.
C5_UnknownStatusIsGeneric ==
    (Raises(HttpKind) /\ op.b.status \notin {NoStatus, 400, 401, 403, 404, 429, 500, 503}) =>
        /\ ~outcome.escaped
        /\ ~outcome.success
        /\ outcome.error_message = "HTTP error: " \o op.b.text

\* C6: for an HTTP 400 Bad Request fault the call gives a failure with the
\* BadRequest message and prints no warning line.
C6_BadRequestSilent ==
    (Raises(HttpKind) /\ op.b.status = 400) =>
        /\ ~outcome.escaped
        /\ ~outcome.success
        /\ outcome.error_message = Msg400
        /\ printed = <<>>

\* C7: every failed call whose category is not BadRequest prints a warning
\* line naming the method and the error message, one line per failed call.
C7_OneWarningPerFailure ==
    (Called /\ ~outcome.escaped /\ ~outcome.success
        /\ outcome.error_message # Msg400) =>
        printed = <<"(!) " \o (IF op.method_name = None THEN OpName ELSE op.method_name)
                      \o " failed: " \o outcome.error_message>>

\* C8: faults that are not HTTP faults are classified by their kind:
\* authentication fault -> (False, None, "Authentication issue: <text>"),
\* connectivity fault -> (False, None, "Connection issue: <text>"), any other
\* exception -> (False, None, "Unexpected error: <text>"); one category each.
C8_PlainFaultsByKind ==
    (Called /\ op.b.kind \in {AuthKind, ConnKind, OtherKind}) =>
        /\ ~outcome.escaped
        /\ ~outcome.success
        /\ outcome.result = None
        /\ outcome.error_message =
              (CASE op.b.kind = AuthKind -> "Authentication issue: "
                 [] op.b.kind = ConnKind -> "Connection issue: "
                 [] op.b.kind = OtherKind -> "Unexpected error: ") \o op.b.text

C8_Witness ==
    /\ Raises(ConnKind)
    /\ op.b.text = "boom"
    /\ outcome.error_message = "Connection issue: boom"
    /\ outcome.result = None
    /\ ~outcome.success

-----------------------------------------------------------------------------
(* Properties of GarminClient.login, checked under LoginSpec *)

\* the login call has ended
LoginEnded == pc = "idle" /\ loginResult.status \in {"returned", "raised"}

\* C9: login stops after the fixed bound: it makes at most 3 api.login()
\* attempts and at most 3 mfa_callback() calls; when every resume was rejected
\* (401/403) it has made exactly 3 of each and ends by raising
\* "Invalid email or password", never by returning.
C9_BoundedRetries ==
    /\ hist.loginCalls <= 3
    /\ hist.mfaCalls <= 3
    /\ Len(hist.resumes) <= 3
    /\ (LoginEnded /\ hist.loginCalls > 0 /\ hist.rejected = hist.loginCalls) =>
          /\ hist.loginCalls = 3
          /\ hist.mfaCalls = 3
          /\ loginResult.status = "raised"
          /\ loginResult.msg = "Invalid email or password"
    /\ hist.rejected >= 3 => (LoginEnded /\ loginResult.status = "raised")

C9_Witness ==
    /\ LoginEnded
    /\ hist.rejected = 3
    /\ hist.loginCalls = 3
    /\ hist.mfaCalls = 3
    /\ loginResult.status = "raised"

\* C10: when MFA is required and the code the callback supplies is accepted,
\* the login takes exactly one challenge/response round trip: one
\* api.login(), one mfa_callback(), one resume_login() carrying the challenge
\* state of that attempt and that code; the client then holds that attempt's
\* session, and the call ends by returning unless the token dump faults.
C10_OneRoundTrip ==
    (Len(hist.resumes) >= 1 /\ hist.resumes[1].result = "ok") =>
        /\ hist.loginCalls = 1
        /\ hist.mfaCalls = 1
        /\ Len(hist.resumes) = 1
        /\ hist.needs = <<TRUE>>
        /\ hist.states[1] = <<"client_state", hist.apis[1]>>
        /\ hist.resumes[1].args = <<hist.states[1], hist.codes[1]>>
        /\ api = hist.apis[1]
        /\ api # NoApi
        /\ pc \in {"dump", "idle"}
        /\ pc = "idle" =>
              \/ loginResult.status = "returned"
              \/ loginResult.status = "raised" /\ loginResult.by = "dump"

C10_Witness ==
    /\ LoginEnded
    /\ loginResult.status = "returned"
    /\ Len(hist.resumes) = 1
    /\ hist.resumes[1].result = "ok"
    /\ hist.mfaCalls = 1
    /\ api = hist.apis[1]
    /\ tokenstore = api

\* C11: when api.login() succeeds and signals no MFA requirement, the login
\* is over in a single attempt: mfa_callback is never invoked, resume_login is
\* never called, self.api is the Garmin object of that attempt, and
\* is_connected() is true when login returns.
C11_DirectLogin ==
    (Len(hist.needs) >= 1 /\ ~hist.needs[1]) =>
        /\ hist.loginCalls = 1
        /\ hist.mfaCalls = 0
        /\ hist.resumes = <<>>
        /\ pc \in {"dump", "idle"}
        /\ api = hist.apis[1]
        /\ api # NoApi
        /\ pc = "idle" =>
              \/ loginResult.status = "returned"
              \/ loginResult.status = "raised" /\ loginResult.by = "dump"

C11_Witness ==
    /\ LoginEnded
    /\ loginResult.status = "returned"
    /\ hist.needs = <<FALSE>>
    /\ loc.mfa_callback
    /\ hist.mfaCalls = 0
    /\ api = hist.apis[1]

\* the step in which api.login() signals MFA to a login that has no callback
MfaWithoutCallbackStep ==
    /\ pc = "api_login"
    /\ ~loc.mfa_callback
    /\ Len(hist'.needs) = Len(hist.needs) + 1
    /\ hist'.needs[Len(hist'.needs)]

\* C12: when the service requires MFA and no mfa_callback was supplied, login
\* fails hard on the first attempt: it raises with a message mentioning MFA,
\* makes no retry, calls no resume_login, persists no token and installs no
\* session (a client that was not connected stays not connected).
C12_MfaWithoutCallbackFailsHard ==
    [][MfaWithoutCallbackStep =>
          /\ pc' = "idle"
          /\ loginResult'.status = "raised"
          /\ Contains("MFA", loginResult'.msg)
          /\ hist'.loginCalls = 1
          /\ hist'.mfaCalls = 0
          /\ hist'.resumes = <<>>
          /\ hist'.dumps = 0
          /\ tokenstore' = tokenstore
          /\ api' = api
          /\ (api = NoApi => api' = NoApi)]_vars

C12_Witness ==
    /\ LoginEnded
    /\ loginResult.status = "raised"
    /\ loginResult.msg = "Provide an MFA function"
    /\ hist.needs = <<TRUE>>
    /\ ~loc.mfa_callback
    /\ api = NoApi
    /\ tokenstore = NoApi

\* the last resume_login of the login
LastResume == hist.resumes[Len(hist.resumes)]

\* the last resume_login failed with a fault that is no authentication
\* rejection: not an HTTP fault, or an HTTP fault whose response carries a
\* status other than 401/403
StructuralResumeFault ==
    /\ hist.resumes # <<>>
    /\ \/ LastResume.result = "raised" /\ loginResult.kind # HttpKind
       \/ LastResume.result # "ok" /\ LastResume.status \notin {NoStatus, 401, 403}

\* C13: only an authentication-rejected resume is retried: when resume_login
\* fails with a fault that is no authentication rejection, login makes no
\* further attempt, the fault propagates to the caller and the attempt's
\* session is not installed.
C13_StructuralNotRetried ==
    StructuralResumeFault =>
        /\ LastResume.result = "raised"
        /\ LoginEnded
        /\ loginResult.status = "raised"
        /\ loginResult.by = "resume_login"
        /\ hist.loginCalls = Len(hist.resumes)
        /\ api # hist.apis[Len(hist.apis)]

\* C14: Authenticated implies persisted: whenever a login has left the client
\* connected, the token of the session it holds has been written to the
\* token store.
C14_AuthenticatedImpliesPersisted ==
    (pc = "idle" /\ api # NoApi) => tokenstore = api

-----------------------------------------------------------------------------
(* Properties of the GarminClient's other methods, checked under ClientSpec *)

\* the step of a get_activities / get_activity call on a client that is not
\* connected
NotConnectedCallStep ==
    /\ ret'.op \in {"get_activities", "get_activity"}
    /\ api = NoApi

\* C15: calls issued while the client is not Authenticated fail fast:
\* get_activities and get_activity raise a "not connected" RuntimeError
\* without invoking the Call Guard or any external method, and leave the
\* client state unchanged.
C15_FailFastWhenNotConnected ==
    [][NotConnectedCallStep =>
          /\ ret'.status = "raised"
          /\ ret'.kind = "RuntimeError"
          /\ Contains("not connected", ret'.msg)
          /\ ret'.guardCalls = 0
          /\ invoked' = <<>>
          /\ printed' = <<>>
          /\ api' = api
          /\ tokenstore' = tokenstore
          /\ pc' = pc]_vars

C15_Witness ==
    /\ ret.op = "get_activity"
    /\ ret.status = "raised"
    /\ ret.kind = "RuntimeError"
    /\ api = NoApi
    /\ invoked = <<>>

\* C16: when the underlying fetch succeeds, get_activities returns exactly the
\* value the fetch returned, None and the empty list included.
C16_EmptyResultIsSuccess ==
    (ret.op = "get_activities" /\ api # NoApi /\ op.b.kind = "return") =>
        /\ ret.status = "returned"
        /\ ret.value = op.b.value

\* a data call that reached the guard
DataCallMade ==
    \/ ret.op = "_call"
    \/ ret.op \in {"get_activities", "get_activity"} /\ api # NoApi

\* C17: every data call of an Authenticated client goes through the Call
\* Guard exactly once and is never retried: the underlying method is invoked
\* once, and when the guard's outcome is a failure the call raises an
\* Exception carrying the guard's error message instead of returning a value.
C17_GuardedOnceNoRetry ==
    DataCallMade =>
        /\ Len(invoked) = 1
        /\ invoked[1] = <<op.args, <<>>>>
        /\ (~outcome.escaped /\ ~outcome.success) =>
              /\ ret.status = "raised"
              /\ ret.kind = "Exception"
              /\ ret.msg = outcome.error_message
        /\ (~outcome.escaped /\ outcome.success) => ret.status = "returned"

C17_Witness ==
    /\ ret.op = "get_activity"
    /\ api # NoApi
    /\ op.b.kind = ConnKind
    /\ ret.status = "raised"
    /\ ret.msg = "Connection issue: boom"
    /\ Len(invoked) = 1

\* the client holds the session of a Garmin object a login built
Authenticated == api \in 1..(nextId - 1)

\* C18: is_connected() is a pure query: it returns true iff the client is
\* Authenticated, false for a freshly constructed client, and changes no
\* state.
C18_IsConnectedPure ==
    [][ret'.op = "is_connected" =>
          /\ ret'.status = "returned"
          /\ ret'.value = (IF Authenticated THEN "True" ELSE "False")
          /\ (api = NoApi => ret'.value = "False")
          /\ api' = api
          /\ tokenstore' = tokenstore
          /\ pc' = pc
          /\ nextId' = nextId
          /\ invoked' = <<>>]_vars

C18_Witness ==
    /\ ret.op = "is_connected"
    /\ ret.value = "True"
    /\ api # NoApi
    /\ tokenstore = NoApi

-----------------------------------------------------------------------------
(* Properties of safe_call_for_group and call_and_display, checked under
   WrapperSpec *)

\* safe_call_for_group has run
GroupCalled == Called /\ ret.op = "safe_call_for_group"

\* the operation returned or raised a subclass of Exception
OrdinaryBehaviour == op.b.kind \in ExceptionKinds \cup {"return"}

\* C19 as stated: safe_call_for_group never raises and returns a
\* (description, result) pair; on success the description starts with the
\* method name and the result is the operation's return value; on any fault
\* the description ends with " [ERROR]" and the result is the dict
\* {"error": <error message>}.
C19_GroupPairStartsWithName ==
    (GroupCalled /\ OrdinaryBehaviour) =>
        /\ ret.status = "returned"
        /\ op.b.kind = "return" =>
              /\ StartsWith(EffectiveName(op.method_name), ret.value[1])
              /\ ret.value[2] = op.b.value
        /\ op.b.kind # "return" =>
              /\ EndsWith(" [ERROR]", ret.value[1])
              /\ ret.value[2] = ErrorDict(outcome.error_message)

\* the description of the call op without the error mark: the caller's
\* api_call_desc when one is given, else method_name(args, kwargs)
ExpectedDesc ==
    IF op.api_call_desc # None THEN op.api_call_desc
    ELSE EffectiveName(op.method_name) \o "("
            \o Join(NonEmpty(<<Join(op.args), Join(op.kwargs)>>)) \o ")"

\* C19 amended: safe_call_for_group never raises (for an operation that
\* returns or raises a subclass of Exception) and returns a (description,
\* result) pair. The description is the caller's api_call_desc when one is
\* given, and only otherwise built as method_name(arguments), which starts
\* with the method name. On success the pair is (description, the operation's
\* return value); on a fault it is (description + " [ERROR]",
\* {"error": <the guard's error message>}).
C19_GroupPair ==
    (GroupCalled /\ OrdinaryBehaviour) =>
        /\ ret.status = "returned"
        /\ op.api_call_desc = None =>
              StartsWith(EffectiveName(op.method_name), ret.value[1])
        /\ op.b.kind = "return" =>
              /\ ret.value[1] = ExpectedDesc
              /\ ret.value[2] = op.b.value
        /\ op.b.kind # "return" =>
              /\ ret.value[1] = ExpectedDesc \o " [ERROR]"
              /\ EndsWith(" [ERROR]", ret.value[1])
              /\ outcome.error_message # None
              /\ ret.value[2] = "{'error': '" \o outcome.error_message \o "'}"

C19_Witness ==
    /\ GroupCalled
    /\ op.api_call_desc = "Daily summary"
    /\ op.method_name = "summary"
    /\ op.b.kind = OtherKind
    /\ op.b.text = "boom"
    /\ ret.value = <<"Daily summary [ERROR]", "{'error': 'Unexpected error: boom'}">>

\* call_and_display has run in single-call mode
DisplayCalled == Called /\ ret.op = "call_and_display"

\* the header line of the display of api_call is among the lines printed
HeaderPrinted(api_call) ==
    \E i \in 1..Len(printed) : printed[i] = "API Call: " \o api_call

\* C20: call_and_display in single-call mode returns (True, value) exactly
\* when the guarded call succeeded, a None value included, and (False, None)
\* when it failed, after displaying the response or an "[ERROR]" entry and
\* writing response.json; a fault of the wrapped operation never escapes.
C20_DisplayReturnsOutcome ==
    (DisplayCalled /\ OrdinaryBehaviour) =>
        /\ ret.status = "returned"
        /\ op.b.kind = "return" =>
              /\ ret.value = <<"True", op.b.value>>
              /\ HeaderPrinted(ExpectedDesc)
        /\ op.b.kind # "return" =>
              /\ ret.value = <<"False", None>>
              /\ HeaderPrinted(ExpectedDesc \o " [ERROR]")
        /\ response_json \notin {NoDir, NoFile}

-----------------------------------------------------------------------------
(* Properties of format_timedelta, checked under UtilsSpec *)

\* format_timedelta has run
Formatted == ret.op = "format_timedelta"

\* the number a string of decimal digits denotes; -1 when a character is not
\* a digit
RECURSIVE ParseDigits(_)
ParseDigits(s) ==
    IF Len(s) = 0 THEN 0
    ELSE LET last == SubSeq(s, Len(s), Len(s))
             front == ParseDigits(SubSeq(s, 1, Len(s) - 1))
         IN  IF front < 0 \/ ~(\E d \in 1..10 : Digits[d] = last) THEN -1
             ELSE front * 10 + (CHOOSE d \in 0..9 : Digits[d + 1] = last)

\* the rendering s reads H:MM:SS with H, MM, SS decimal numbers
WellFormed(s) ==
    /\ Len(s) >= 7
    /\ SubSeq(s, Len(s) - 2, Len(s) - 2) = ":"
    /\ SubSeq(s, Len(s) - 5, Len(s) - 5) = ":"
    /\ ParseDigits(SubSeq(s, 1, Len(s) - 6)) >= 0
    /\ ParseDigits(SubSeq(s, Len(s) - 4, Len(s) - 3)) >= 0
    /\ ParseDigits(SubSeq(s, Len(s) - 1, Len(s))) >= 0

HoursOf(s) == ParseDigits(SubSeq(s, 1, Len(s) - 6))
MinutesOf(s) == ParseDigits(SubSeq(s, Len(s) - 4, Len(s) - 3))
SecondsOf(s) == ParseDigits(SubSeq(s, Len(s) - 1, Len(s)))

\* C21: format_timedelta renders a non-negative duration of whole seconds as
\* H:MM:SS with days folded into hours (hours not wrapped at 24):
\* H*3600 + MM*60 + SS equals the duration's total seconds, and
\* 0 <= MM, SS < 60.
C21_FormatTimedelta ==
    (Formatted /\ op.td.days >= 0) =>
        /\ ret.status = "returned"
        /\ WellFormed(ret.value)
        /\ HoursOf(ret.value) * 3600 + MinutesOf(ret.value) * 60 + SecondsOf(ret.value)
              = op.td.days * 86400 + op.td.seconds
        /\ MinutesOf(ret.value) \in 0..59
        /\ SecondsOf(ret.value) \in 0..59

C21_Witness ==
    /\ Formatted
    /\ op.td = [days |-> 1, seconds |-> 5]
    /\ ret.value = "24:00:05"

-----------------------------------------------------------------------------
(* Properties of the failure paths of GarminClient.login: C22 and C24 checked
   under LoginSpec, C23 under ClientSpec *)

\* the login call has ended by raising
LoginFailed == LoginEnded /\ loginResult.status = "raised"

\* is_connected() as it was when the login call was entered
ConnectedBefore == hist.apiBefore # NoApi

\* C22: a failed login leaves the connection state unchanged: for every way
\* login can raise (credential step, missing MFA callback, resume, retries
\* exhausted, token persistence), is_connected() after the raise equals
\* is_connected() before the call; a client that was not connected is still
\* not connected.
C22_FailedLoginKeepsConnection ==
    LoginFailed => (is_connected <=> ConnectedBefore)

\* C23: connectivity is monotone: once the client is Authenticated,
\* is_connected() stays true after every later operation (login calls and
\* data calls, failed or successful); no operation clears the held session,
\* and a failed re-login keeps the previous session in place.
C23_ConnectivityMonotone ==
    [][/\ is_connected => is_connected'
       /\ (LoginFailed' /\ ConnectedBefore') => api' = hist'.apiBefore]_vars

\* C24: the retry loop covers only a rejected MFA resume: a fault raised by
\* api.login(), by the mfa_callback or by the token dump ends the login call
\* by raising, on the attempt where it occurs and with no further attempt,
\* whatever its kind (a GarthHTTPError whose text holds 401 included).
C24_OnlyResumeRetried ==
    hist.stepFaults > 0 =>
        /\ LoginFailed
        /\ loginResult.by \in {"api.login", "mfa_callback", "dump"}
        /\ hist.stepFaults = 1
        /\ hist.loginCalls = loc.attempt + 1
        /\ hist.rejected = loc.attempt

C24_Witness ==
    /\ LoginFailed
    /\ loginResult.by = "api.login"
    /\ loginResult.kind = HttpKind
    /\ loginResult.msg = "401"
    /\ hist.stepFaults = 1
    /\ hist.loginCalls = 2
    /\ hist.rejected = 1

====
